---- MODULE Spec2Model ----
(***************************************************************************)
(* Model of historical_variability_analyzer.py                             *)
(*   create_all_companies_variability_table  (the multi-entity "build")    *)
(*   create_historical_variability_table     (the one-company table)       *)
(* and of the caller in dashboard.py.                                      *)
(*                                                                         *)
(* Numbers.  A float x is the integer x * 100 * Res: Res model units make  *)
(* one hundredth, so a value carries digits below the second decimal.      *)
(* A value rounded to 2 decimals is an integer number of hundredths.       *)
(* numpy rounds by rint(x * 100) / 100 and rint rounds half to even; the   *)
(* binary representation error of the floats is not modelled.              *)
(* Text.  A string the code formats is the sequence of its characters.     *)
(* A column name is the sequence of the pieces of its f-string.            *)
(***************************************************************************)
EXTENDS Integers, Sequences, FiniteSets, TLC

\* ---------------------------------------------------------------- bounds
MaxEntities == 2
MaxVal == 15
Res == 10

\* ------------------------------------------------------- program constants
NumMonths == 12

months == <<"Jan", "Feb", "Mar", "Apr", "May", "Jun",
            "Jul", "Aug", "Sep", "Oct", "Nov", "Dec">>

CompanyStyle == "font-weight: bold; background-color: #f8f9fa"
AverageStyle == "background-color: #fff2cc; font-weight: bold"
ValueStyle == "background-color: #e8f4f8"
GreenStyle == "background-color: #d4edda; color: #155724"
RedStyle == "background-color: #f8d7da; color: #721c24"
GreyStyle == "background-color: #f8f9fa"

\* ------------------------------------------------------------- arithmetic
RECURSIVE SumSeq(_)
SumSeq(s) == IF s = <<>> THEN 0 ELSE Head(s) + SumSeq(Tail(s))

Abs(x) == IF x < 0 THEN -x ELSE x

\* a rounding that drops the digits instead: the quotient cut toward zero
TruncDiv(num, den) == IF num >= 0 THEN num \div den ELSE -((-num) \div den)

\* the integer nearest to num / den (den > 0), a tie going to the even one
RoundDiv(num, den) ==
    LET q == num \div den
        r == num % den
    IN  IF 2 * r < den THEN q
        ELSE IF 2 * r > den THEN q + 1
        ELSE IF q % 2 = 0 THEN q ELSE q + 1

\* an ndarray: its dtype and its elements
Array(dtype, data) == [dtype |-> dtype, data |-> data]

\* np.zeros(12)
Zeros == Array("float64", [m \in 1..NumMonths |-> 0])

\* a mean that divides by one month less
RoundMeanOffByOne(a) == RoundDiv(SumSeq(a.data), (Len(a.data) - 1) * Res)

\* round(np.mean(a), 2), in hundredths
RoundMean(a) == RoundDiv(SumSeq(a.data), Len(a.data) * Res)

\* round(monthly_values[i] - average_mix, 2): the hundredths, and whether the
\* result is the float -0.0 (a negative difference that rounds to zero)
RoundDiff(v, avg) ==
    LET d == v - avg * Res
        h == RoundDiv(d, Res)
    IN  [h |-> h, negzero |-> (h = 0 /\ d < 0)]

\* ------------------------------------------------------------- formatting
DigitChar(d) == <<"0", "1", "2", "3", "4", "5", "6", "7", "8", "9">>[d + 1]

RECURSIVE Digits(_)
Digits(n) ==
    IF n < 10 THEN <<DigitChar(n)>>
    ELSE Digits(n \div 10) \o <<DigitChar(n % 10)>>

\* the "," option of the format mini-language: groups of three digits
RECURSIVE Grouped(_)
Grouped(n) ==
    IF n < 1000 THEN Digits(n)
    ELSE Grouped(n \div 1000) \o
         <<",", DigitChar((n \div 100) % 10), DigitChar((n \div 10) % 10),
           DigitChar(n % 10)>>

\* f"{x:.2f}" and f"{x:,.2f}" of a float of h hundredths (-0.0 when negzero)
Format2f(h, negzero, comma) ==
    LET mag == Abs(h)
        int == IF comma THEN Grouped(mag \div 100) ELSE Digits(mag \div 100)
    IN  (IF h < 0 \/ negzero THEN <<"-">> ELSE <<>>) \o int \o
        <<".", DigitChar((mag \div 10) % 10), DigitChar(mag % 10)>>

\* f"{x:,.0f}" of a value of v model units
Format0f(v) ==
    LET n == RoundDiv(Abs(v), 100 * Res)
    IN  (IF v < 0 THEN <<"-">> ELSE <<>>) \o Grouped(n)

\* ------------------------------------------------------------------ inputs
\* example_single_company: the sample counts and the sample percentages
ExampleCalls ==
    Array("float64",
          [m \in 1..NumMonths |->
              <<1200, 1100, 1300, 1400, 1500, 1600,
                1700, 1600, 1500, 1400, 1300, 1200>>[m] * 100 * Res])

ExamplePct ==
    Array("float64",
          [m \in 1..NumMonths |->
              <<833, 764, 903, 972, 1042, 1111,
                1181, 1111, 1042, 972, 903, 833>>[m] * Res])

\* a series of n months: a in the first k months and b in the others
Step(n, k, a, b) == [m \in 1..n |-> IF m <= k THEN a ELSE b]

Company(name, id, calls, pct) ==
    [company_name |-> name, company_id |-> id,
     monthly_calls |-> calls, calls_percentages |-> pct]

\* records of every shape: well formed, all zero, two of one name, a series
\* of 11 and of 13 months, a series that is not numeric
SmallPool ==
    { Company("A", 1, ExampleCalls, ExamplePct),
      Company("B", 2, Zeros, Zeros),
      Company("A", 3, ExampleCalls, Zeros),
      Company("C", 4, Zeros, ExamplePct),
      Company("B", 5, Array("float64", Step(NumMonths - 1, 4, 300 * Res, 0)),
                      Array("float64", Step(NumMonths - 1, 4, 300 * Res, 0))),
      Company("C", 6, Array("float64", Step(NumMonths + 1, 1, 1300 * Res, 0)),
                      Array("float64", Step(NumMonths + 1, 1, 1300 * Res, 0))),
      Company("D", 7, Array("str", Step(NumMonths, 6, 1, 0)),
                      Array("str", Step(NumMonths, 6, 1, 0))) }

\* no value and no mean of the series lies exactly halfway between two
\* hundredths: there the float's representation error decides the rounding
NoTies(data) ==
    /\ \A m \in 1..Len(data) : 2 * (data[m] % Res) # Res
    /\ 2 * (SumSeq(data) % (Len(data) * Res)) # Len(data) * Res

\* one well-formed record per (k, a, b): counts a and b, and the percentages
\* a and b in model units (digits below the second decimal)
RichPool ==
    { Company("A", 1,
              Array("float64", Step(NumMonths, p[1], p[2] * 100 * Res, p[3] * 100 * Res)),
              Array("float64", Step(NumMonths, p[1], p[2], p[3]))) :
        p \in { q \in (1..NumMonths) \X (0..MaxVal) \X (0..MaxVal) :
                   NoTies(Step(NumMonths, q[1], q[2], q[3])) } }

AllColumns == {"company_name", "company_id", "monthly_calls", "calls_percentages"}

ColumnSets ==
    { AllColumns, AllColumns \ {"monthly_calls"},
      AllColumns \ {"calls_percentages"}, AllColumns \ {"company_name"} }

RECURSIVE SeqsUpTo(_, _)
SeqsUpTo(S, n) ==
    IF n = 0 THEN {<<>>}
    ELSE LET shorter == SeqsUpTo(S, n - 1)
         IN  shorter \cup { Append(s, e) : s \in {t \in shorter : Len(t) = n - 1}, e \in S }

\* a DataFrame: its columns, and its rows as records over those columns
DataFrame(cols, recs) ==
    [columns |-> cols,
     rows |-> [r \in 1..Len(recs) |-> [c \in cols |-> recs[r][c]]]]

Inputs ==
    { DataFrame(cols, recs) : cols \in ColumnSets, recs \in SeqsUpTo(SmallPool, MaxEntities) }
    \cup { DataFrame(AllColumns, <<e>>) : e \in RichPool }

Modes == {"Percentages", "Absolute", "Percentage"}

\* ------------------------------------------------------- the table builder
\* f'{month}' and f'{month}_var'
ValueColumn(m) == <<months[m]>>
VarColumn(m) == <<months[m], "_var">>

\* col_name.endswith('_var')
EndsWithVar(col) == col[Len(col)] = "_var"

RECURSIVE MonthColumns(_)
MonthColumns(m) ==
    IF m = 0 THEN <<>>
    ELSE MonthColumns(m - 1) \o <<ValueColumn(m), VarColumn(m)>>

EmptyColumns == << <<"Company">>, <<"Average Mix">> >>

Columns == EmptyColumns \o MonthColumns(Len(months))

\* company_row.get(key, default)
Get(row, key, default) == IF key \in DOMAIN row THEN row[key] ELSE default

\* the selection with the two series exchanged
SelectedSwapped(mode, calls, pct) == IF mode = "Percentages" THEN calls ELSE pct

\* the series the mode selects
Selected(mode, calls, pct) == IF mode = "Percentages" THEN pct ELSE calls

AvgUnit(mode) == IF mode = "Percentages" THEN "%" ELSE "calls"
VarUnit(mode) == IF mode = "Percentages" THEN "pp" ELSE "calls"

\* what np.mean and monthly_values[i] for i in range(12) raise
MeanError(a) == IF a.dtype = "float64" THEN "none" ELSE "TypeError"
IndexError(a) == IF Len(a.data) >= NumMonths THEN "none" ELSE "IndexError"

Variability(a, avg) == [m \in 1..NumMonths |-> RoundDiff(a.data[m], avg)]

AverageCell(mode, avg) ==
    IF mode = "Percentages" THEN Format2f(avg, FALSE, FALSE) \o <<"%">>
    ELSE Format2f(avg, FALSE, TRUE)

ValueCell(mode, v) ==
    IF mode = "Percentages" THEN Format2f(RoundDiv(v, Res), FALSE, FALSE) \o <<"%">>
    ELSE Format0f(v)

VarCell(mode, var) ==
    IF var.h >= 0
    THEN <<"+">> \o Format2f(var.h, var.negzero, mode # "Percentages")
    ELSE Format2f(var.h, var.negzero, mode # "Percentages")

RECURSIVE MonthCells(_, _, _, _)
MonthCells(mode, a, var, m) ==
    IF m = 0 THEN <<>>
    ELSE MonthCells(mode, a, var, m - 1) \o
         <<ValueCell(mode, a.data[m]), VarCell(mode, var[m])>>

\* a row put in front of the rows built so far
PrependRow(table, row) == <<row>> \o table

\* table_data.append(row_data)
AppendRow(table, row) == Append(table, row)

RowData(mode, name, a, avg, var) ==
    <<name, AverageCell(mode, avg)>> \o MonthCells(mode, a, var, Len(months))

\* highlight_variability_table, one cell
CellStyle(col, cell) ==
    IF EndsWithVar(col)
    THEN IF Head(cell) = "+" THEN GreenStyle
         ELSE IF Head(cell) = "-" THEN RedStyle
         ELSE GreyStyle
    ELSE ValueStyle

highlight_variability_table(cols, row) ==
    [j \in 1..Len(row) |->
        IF j = 1 THEN CompanyStyle
        ELSE IF j = 2 THEN AverageStyle
        ELSE CellStyle(cols[j], row[j])]

\* ------------------------------------------------------------------- state
VARIABLES
    fn,                  \* the function called: all_companies, single, or none
    all_companies_data,  \* the argument of the call
    analysis_mode,       \* the argument of the call
    monthly_calls,       \* the counts of the row processed last (of the one company)
    calls_percentages,   \* its percentages
    pc,                  \* idle, start, loop, done, failed
    i,                   \* the row the loop is at
    table_data,          \* the rows built so far
    average_mix,         \* of the row processed last, in hundredths
    variability,         \* of the row processed last
    avg_unit,
    var_unit,
    df,                  \* the table returned
    styled_df,           \* the styles returned, one row per row of df
    error                \* the exception the call raised, or none

vars == <<fn, all_companies_data, analysis_mode, monthly_calls, calls_percentages, pc, i, table_data, average_mix,
          variability, avg_unit, var_unit, df, styled_df, error>>

NoData == [columns |-> {}, rows |-> <<>>]
NoTable == [columns |-> <<>>, data |-> <<>>]
NoArray == Array("none", <<>>)

\* two invocations of the builder at once, and the aggregation that feeds it
VARIABLES
    frames,              \* per invocation: its arguments, its position, its results
    lists,               \* the list objects that table_data names, per slot
    query_df,            \* the rows the query returned
    agg_pc,              \* the position in get_companies_variability_data
    agg_i,               \* the index of the next company_id
    companies_data,      \* the list of the dicts appended so far
    returned             \* the DataFrame get_companies_variability_data returned

parVars == <<frames, lists>>
aggVars == <<query_df, agg_pc, agg_i, companies_data, returned>>

Invocations == {1, 2}

\* an invocation that has not been called
NoFrame ==
    [all_companies_data |-> NoData, analysis_mode |-> "", pc |-> "idle", i |-> 0,
     df |-> NoTable, styled_df |-> <<>>, error |-> "none"]

ParInit ==
    /\ frames = [p \in Invocations |-> NoFrame]
    /\ lists = [p \in Invocations |-> <<>>]

AggInit ==
    /\ query_df = <<>>
    /\ agg_pc = "idle"
    /\ agg_i = 0
    /\ companies_data = <<>>
    /\ returned = NoData

Init ==
    /\ ParInit
    /\ AggInit
    /\ fn = "none"
    /\ all_companies_data = NoData
    /\ analysis_mode = ""
    /\ monthly_calls = NoArray
    /\ calls_percentages = NoArray
    /\ pc = "idle"
    /\ i = 0
    /\ table_data = <<>>
    /\ average_mix = 0
    /\ variability = <<>>
    /\ avg_unit = ""
    /\ var_unit = ""
    /\ df = NoTable
    /\ styled_df = <<>>
    /\ error = "none"

\* main: the dashboard calls the builder with the data and the mode
Call ==
    /\ pc = "idle"
    /\ \E data \in Inputs, mode \in Modes :
          /\ all_companies_data' = data
          /\ analysis_mode' = mode
    /\ fn' = "all_companies"
    /\ monthly_calls' = NoArray
    /\ calls_percentages' = NoArray
    /\ pc' = "start"
    /\ i' = 0
    /\ table_data' = <<>>
    /\ average_mix' = 0
    /\ variability' = <<>>
    /\ avg_unit' = ""
    /\ var_unit' = ""
    /\ df' = NoTable
    /\ styled_df' = <<>>
    /\ error' = "none"
    /\ UNCHANGED <<parVars, aggVars>>

\* all_companies_data.empty
IsEmpty(data) == Len(data.rows) = 0 \/ data.columns = {}

\* the guard on empty data, else the columns of the table
CheckEmpty ==
    /\ pc = "start"
    /\ IF IsEmpty(all_companies_data)
       THEN /\ df' = [columns |-> EmptyColumns, data |-> <<>>]
            /\ styled_df' = <<>>
            /\ pc' = "done"
            /\ i' = i
       ELSE /\ pc' = "loop"
            /\ i' = 1
            /\ UNCHANGED <<df, styled_df>>
    /\ UNCHANGED <<fn, all_companies_data, analysis_mode, monthly_calls,
                   calls_percentages, table_data, average_mix, variability,
                   avg_unit, var_unit, error>>
    /\ UNCHANGED <<parVars, aggVars>>

\* one iteration of the loop over the rows
ProcessCompany ==
    /\ pc = "loop"
    /\ i <= Len(all_companies_data.rows)
    /\ LET company_row == all_companies_data.rows[i]
           company_name == Get(company_row, "company_name", "Unknown Company")
           calls == Get(company_row, "monthly_calls", Zeros)
           pct == Get(company_row, "calls_percentages", Zeros)
           monthly_values == Selected(analysis_mode, calls, pct)
           avg == RoundMean(monthly_values)
           var == Variability(monthly_values, avg)
       IN  /\ monthly_calls' = calls
           /\ calls_percentages' = pct
           /\ IF MeanError(monthly_values) # "none"
              THEN /\ error' = MeanError(monthly_values)
                   /\ pc' = "failed"
                   /\ UNCHANGED <<i, table_data, average_mix, variability, avg_unit, var_unit>>
              ELSE IF IndexError(monthly_values) # "none"
              THEN /\ error' = IndexError(monthly_values)
                   /\ pc' = "failed"
                   /\ average_mix' = avg
                   /\ avg_unit' = AvgUnit(analysis_mode)
                   /\ var_unit' = VarUnit(analysis_mode)
                   /\ UNCHANGED <<i, table_data, variability>>
              ELSE /\ average_mix' = avg
                   /\ avg_unit' = AvgUnit(analysis_mode)
                   /\ var_unit' = VarUnit(analysis_mode)
                   /\ variability' = var
                   /\ table_data' =
                         AppendRow(table_data,
                                   RowData(analysis_mode, company_name, monthly_values, avg, var))
                   /\ i' = i + 1
                   /\ UNCHANGED <<pc, error>>
    /\ UNCHANGED <<fn, all_companies_data, analysis_mode, df, styled_df>>
    /\ UNCHANGED <<parVars, aggVars>>

\* after the loop: the DataFrame and its styles
MakeTable ==
    /\ pc = "loop"
    /\ i > Len(all_companies_data.rows)
    /\ df' = [columns |-> Columns, data |-> table_data]
    /\ styled_df' =
          [r \in 1..Len(table_data) |-> highlight_variability_table(Columns, table_data[r])]
    /\ pc' = "done"
    /\ UNCHANGED <<fn, all_companies_data, analysis_mode, monthly_calls,
                   calls_percentages, i, table_data, average_mix, variability,
                   avg_unit, var_unit, error>>
    /\ UNCHANGED <<parVars, aggVars>>

\* ---------------------------------------------- the one-company table
PlainStyle == ""
BoldStyle == "font-weight: bold"

\* ['Metric'] + months + ['Avg Mix'] + [f'{month}_var' for month in months]
RECURSIVE SingleMonths(_)
SingleMonths(m) == IF m = 0 THEN <<>> ELSE Append(SingleMonths(m - 1), ValueColumn(m))

RECURSIVE SingleVars(_)
SingleVars(m) == IF m = 0 THEN <<>> ELSE Append(SingleVars(m - 1), VarColumn(m))

SingleColumns ==
    << <<"Metric">> >> \o SingleMonths(Len(months)) \o << <<"Avg Mix">> >>
    \o SingleVars(Len(months))

\* n empty strings
Blanks(n) == [k \in 1..n |-> <<>>]

\* the rows of the one-company table: the average, the values, the variability
RowAvg(mode, avg) ==
    << <<"Average Mix (", AvgUnit(mode), ")">>, Format2f(avg, FALSE, mode # "Percentages") >>
    \o Blanks(NumMonths - 1) \o << <<"Avg Mix (", AvgUnit(mode), ")">> >>
    \o Blanks(NumMonths - 1)

RowValues(mode, a) ==
    << <<"Monthly Values">> >>
    \o [m \in 1..Len(months) |-> ValueCell(mode, a.data[m])]
    \o << <<"Monthly Values (", AvgUnit(mode), ")">> >> \o Blanks(NumMonths - 1)

RowVar(mode, var) ==
    << <<"Variability">> >> \o Blanks(NumMonths)
    \o << <<"Variability (", VarUnit(mode), ")">> >>
    \o [m \in 1..Len(months) |-> VarCell(mode, var[m])]

\* pd.DataFrame(rows, columns): a row shorter than the columns ends in None
Pad(row, n) == [j \in 1..n |-> IF j <= Len(row) THEN row[j] ELSE <<"None">>]

\* highlight_variability: the style of the column at the 0-based position c
SingleStyle(cols, var, c) ==
    IF c = 0 THEN BoldStyle
    ELSE IF c <= NumMonths
    THEN IF \E m \in 1..Len(months) : cols[c + 1] = <<months[m]>>
         THEN ValueStyle ELSE PlainStyle
    ELSE IF c = NumMonths + 1 THEN AverageStyle
    ELSE IF ~EndsWithVar(cols[c + 1]) THEN PlainStyle
    ELSE IF c < NumMonths + 3 THEN PlainStyle
    ELSE LET var_idx == c - (NumMonths + 3)
         IN  IF var_idx >= Len(var) THEN PlainStyle
             ELSE IF var[var_idx + 1].h > 0 THEN GreenStyle
             ELSE IF var[var_idx + 1].h < 0 THEN RedStyle
             ELSE GreyStyle

highlight_variability(cols, var) ==
    [j \in 1..(2 * NumMonths + 2) |-> SingleStyle(cols, var, j - 1)]

\* create_historical_variability_table, called with two series and a mode
SingleCompany ==
    /\ pc = "idle"
    /\ \E e \in SmallPool \cup RichPool, mode \in Modes :
          LET monthly_values == Selected(mode, e.monthly_calls, e.calls_percentages)
              avg == RoundMean(monthly_values)
              var == Variability(monthly_values, avg)
              rows == << Pad(RowAvg(mode, avg), Len(SingleColumns)),
                         Pad(RowValues(mode, monthly_values), Len(SingleColumns)),
                         RowVar(mode, var) >>
          IN  /\ fn' = "single"
              /\ analysis_mode' = mode
              /\ monthly_calls' = e.monthly_calls
              /\ calls_percentages' = e.calls_percentages
              /\ IF MeanError(monthly_values) # "none"
                 THEN /\ error' = MeanError(monthly_values)
                      /\ pc' = "failed"
                      /\ UNCHANGED <<table_data, average_mix, variability, avg_unit,
                                     var_unit, df, styled_df>>
                 ELSE IF IndexError(monthly_values) # "none"
                 THEN /\ error' = IndexError(monthly_values)
                      /\ pc' = "failed"
                      /\ average_mix' = avg
                      /\ avg_unit' = AvgUnit(mode)
                      /\ var_unit' = VarUnit(mode)
                      /\ UNCHANGED <<table_data, variability, df, styled_df>>
                 ELSE /\ average_mix' = avg
                      /\ avg_unit' = AvgUnit(mode)
                      /\ var_unit' = VarUnit(mode)
                      /\ variability' = var
                      /\ table_data' = rows
                      /\ df' = [columns |-> SingleColumns, data |-> rows]
                      /\ styled_df' =
                            [r \in 1..Len(rows) |-> highlight_variability(SingleColumns, var)]
                      /\ pc' = "done"
                      /\ UNCHANGED error
    /\ UNCHANGED <<all_companies_data, i>>
    /\ UNCHANGED <<parVars, aggVars>>

\* the call has returned or raised: the rendering cycle ends, nothing is kept
Return ==
    /\ pc \in {"done", "failed"}
    /\ fn' = "none"
    /\ all_companies_data' = NoData
    /\ analysis_mode' = ""
    /\ monthly_calls' = NoArray
    /\ calls_percentages' = NoArray
    /\ pc' = "idle"
    /\ i' = 0
    /\ table_data' = <<>>
    /\ average_mix' = 0
    /\ variability' = <<>>
    /\ avg_unit' = ""
    /\ var_unit' = ""
    /\ df' = NoTable
    /\ styled_df' = <<>>
    /\ error' = "none"
    /\ UNCHANGED <<parVars, aggVars>>

Next == Call \/ CheckEmpty \/ ProcessCompany \/ MakeTable \/ SingleCompany \/ Return

Spec == Init /\ [][Next]_vars

\* ================================================================== claims
\* the builder has returned a table
Built == fn = "all_companies" /\ pc = "done"

\* the builder has returned a table for records that carry every column
BuiltFromAllColumns == Built /\ all_companies_data.columns = AllColumns

\* a call of either function has computed the average and the deviations of
\* a series: the variables hold those of the series processed last
Computed == pc \in {"loop", "done"} /\ variability # <<>>

\* the series the code used for row r of the input, by the code's rule
RowCalls(r) == Get(all_companies_data.rows[r], "monthly_calls", Zeros)
RowPct(r) == Get(all_companies_data.rows[r], "calls_percentages", Zeros)
RowSeries(r) == IF analysis_mode = "Percentages" THEN RowPct(r) ELSE RowCalls(r)
RowName(r) == Get(all_companies_data.rows[r], "company_name", "Unknown Company")

\* the numeric deviation of month m of row r, in hundredths
RowDeviation(r, m) ==
    RoundDiff(RowSeries(r).data[m], RoundMean(RowSeries(r))).h

\* the position of the <Month>_var cell of month m in a row of the table
VarPos(m) == 2 * m + 2
ValuePos(m) == 2 * m + 1

RECURSIVE SumH(_)
SumH(var) == IF var = <<>> THEN 0 ELSE Head(var).h + SumH(Tail(var))

SignChars(cell) == Cardinality({j \in 1..Len(cell) : cell[j] \in {"+", "-"}})

\* C1: in the styles the builder returns, the <Month>_var cell of every row
\* and month is green exactly when the numeric deviation is > 0, red exactly
\* when it is < 0 and grey exactly when it is 0.
C1_StyleByNumericSign ==
    BuiltFromAllColumns =>
        \A r \in 1..Len(df.data) : \A m \in 1..NumMonths :
            LET d == RowDeviation(r, m)
                style == styled_df[r][VarPos(m)]
            IN  /\ (style = GreenStyle) <=> (d > 0)
                /\ (style = RedStyle) <=> (d < 0)
                /\ (style = GreyStyle) <=> (d = 0)

\* C2: a call on a series whose length is not 12 returns no result: whenever a
\* result is returned, every series it was computed from has 12 elements.
C2_OnlyTwelveMonths ==
    /\ (fn = "single" /\ pc = "done") =>
          Len(Selected(analysis_mode, monthly_calls, calls_percentages).data) = NumMonths
    /\ BuiltFromAllColumns =>
          \A r \in 1..Len(all_companies_data.rows) : Len(RowSeries(r).data) = NumMonths

\* C3: a call returns a table only for the modes Percentages and Absolute
\* (stated for a call that has a series to compute on).
C3_OnlyTwoModes ==
    /\ (fn = "single" /\ pc = "done") => analysis_mode \in {"Percentages", "Absolute"}
    /\ (BuiltFromAllColumns /\ Len(df.data) > 0) =>
          analysis_mode \in {"Percentages", "Absolute"}

\* C4: the table built from no entities has no rows and the full header of
\* 26 columns, the one a table with rows has.
C4_EmptyHasFullHeader ==
    (Built /\ Len(all_companies_data.rows) = 0) =>
        /\ df.data = <<>>
        /\ df.columns = Columns
        /\ Len(df.columns) = 2 * NumMonths + 2

\* a record with both series present, numeric and of 12 months
WellFormed(data, r) ==
    /\ {"monthly_calls", "calls_percentages"} \subseteq data.columns
    /\ \A c \in {"monthly_calls", "calls_percentages"} :
          /\ data.rows[r][c].dtype = "float64"
          /\ Len(data.rows[r][c].data) = NumMonths

\* C5: a build over a malformed record fails as a whole: a table is returned
\* only when every record is well formed, so no series is zero-filled.
C5_MalformedFails ==
    Built => \A r \in 1..Len(all_companies_data.rows) : WellFormed(all_companies_data, r)

\* the row the table has to hold for row r of the input
ExpectedRow(r) ==
    RowData(analysis_mode, RowName(r), RowSeries(r), RoundMean(RowSeries(r)),
            Variability(RowSeries(r), RoundMean(RowSeries(r))))

\* C6: the table has one row per entity, the k-th row being the row of the
\* k-th entity of the input, also when entities share a name.
C6_RowOrder ==
    Built =>
        /\ Len(df.data) = Len(all_companies_data.rows)
        /\ Len(styled_df) = Len(all_companies_data.rows)
        /\ \A k \in 1..Len(df.data) : df.data[k] = ExpectedRow(k)

C6_Witness ==
    /\ Built
    /\ Len(df.data) = 2
    /\ RowName(1) = RowName(2)
    /\ df.data[1] # df.data[2]
    /\ df.data[1] = ExpectedRow(1)

\* the average avg (hundredths) is the mean of the series a rounded to 2 decimals
IsRoundedMean(avg, a) ==
    2 * Abs(Len(a.data) * avg * Res - SumSeq(a.data)) <= Len(a.data) * Res

\* the deviation h (hundredths) is v minus the average, rounded to 2 decimals
IsRoundedDiff(h, v, avg) == 2 * Abs(h * Res - (v - avg * Res)) <= Res

\* the average, the deviations and the cells of the row built last come from a
UsesSeries(a) ==
    /\ IsRoundedMean(average_mix, a)
    /\ \A m \in 1..NumMonths : IsRoundedDiff(variability[m].h, a.data[m], average_mix)
    /\ fn = "all_companies" =>
          \A m \in 1..NumMonths :
             table_data[Len(table_data)][ValuePos(m)] = ValueCell(analysis_mode, a.data[m])

\* C7: in mode Percentages the average, the value cells and the deviations
\* are those of calls_percentages, with units % and pp; in mode Absolute
\* those of monthly_calls, with the count unit; two rows of one table that
\* differ only in the series of the other mode are the same row.
C7_ModeSelectsSeries ==
    /\ (Computed /\ analysis_mode = "Percentages") =>
          /\ UsesSeries(calls_percentages)
          /\ avg_unit = "%" /\ var_unit = "pp"
    /\ (Computed /\ analysis_mode = "Absolute") =>
          /\ UsesSeries(monthly_calls)
          /\ avg_unit = "calls" /\ var_unit = "calls"
    /\ (Built /\ analysis_mode \in {"Percentages", "Absolute"}) =>
          \A r1, r2 \in 1..Len(df.data) :
             ( /\ RowName(r1) = RowName(r2)
               /\ analysis_mode = "Percentages" => RowPct(r1) = RowPct(r2)
               /\ analysis_mode = "Absolute" => RowCalls(r1) = RowCalls(r2) )
             => df.data[r1] = df.data[r2]

C7_Witness ==
    /\ Built
    /\ analysis_mode = "Absolute"
    /\ Len(df.data) = 2
    /\ RowCalls(1) = RowCalls(2)
    /\ RowPct(1) # RowPct(2)
    /\ RowCalls(1) # RowPct(1)
    /\ df.data[1] = df.data[2]
    /\ ~IsRoundedMean(average_mix, calls_percentages)

\* C8: for a series of 12 values the average is their mean rounded to 2
\* decimals and the deviation of each month is its value minus that rounded
\* average, rounded to 2 decimals; the sample counts in mode Absolute give
\* the average 1400.00, January -200.00 and July +300.00.
C8_AverageAndDeviations ==
    LET a == Selected(analysis_mode, monthly_calls, calls_percentages)
    IN  (Computed /\ Len(a.data) = NumMonths) =>
           /\ IsRoundedMean(average_mix, a)
           /\ Len(variability) = NumMonths
           /\ \A m \in 1..NumMonths :
                 IsRoundedDiff(variability[m].h, a.data[m], average_mix)
           /\ (a = ExampleCalls /\ fn = "all_companies") =>
                 /\ average_mix = 140000
                 /\ variability[1].h = -20000
                 /\ variability[7].h = 30000
                 /\ analysis_mode # "Percentages" =>
                       /\ table_data[Len(table_data)][2] = <<"1", ",", "4", "0", "0", ".", "0", "0">>
                       /\ table_data[Len(table_data)][VarPos(1)] = <<"-", "2", "0", "0", ".", "0", "0">>
                       /\ table_data[Len(table_data)][VarPos(7)] = <<"+", "3", "0", "0", ".", "0", "0">>

C8_Witness ==
    /\ Built
    /\ analysis_mode = "Absolute"
    /\ monthly_calls = ExampleCalls
    /\ average_mix = 140000
    /\ variability[7].h = 30000

\* C9 as stated: the 12 deviations of a series sum to within 0.06 of 0.
C9_SumWithin006 ==
    (Computed /\ Len(Selected(analysis_mode, monthly_calls, calls_percentages).data) = NumMonths)
        => Abs(SumH(variability)) <= 6

\* C9 as amended: the 12 deviations of a series sum to within 0.12 of 0 (0.06
\* from the rounding of the average, 0.06 from the rounding of the deviations).
C9_SumWithin012 ==
    (Computed /\ Len(Selected(analysis_mode, monthly_calls, calls_percentages).data) = NumMonths)
        => Abs(SumH(variability)) <= 12

C9_Witness ==
    /\ Computed
    /\ Len(Selected(analysis_mode, monthly_calls, calls_percentages).data) = NumMonths
    /\ Abs(SumH(variability)) > 6
    /\ Abs(SumH(variability)) <= 12

\* C10: every deviation cell is one sign character, + when the deviation is
\* >= 0 and - when it is negative, followed by digits with 2 decimals.
C10_OneSign ==
    BuiltFromAllColumns =>
        \A r \in 1..Len(df.data) : \A m \in 1..NumMonths :
            LET cell == df.data[r][VarPos(m)]
            IN  /\ SignChars(cell) = 1
                /\ Head(cell) = (IF RowDeviation(r, m) >= 0 THEN "+" ELSE "-")
                /\ cell[Len(cell) - 2] = "."

\* C11: the table always has the 26 columns Company, Average Mix and then
\* <Month>, <Month>_var for the 12 months in order; every row has 26 cells
\* and every row of styles has 26 tags, by position: Company, Average Mix,
\* value, and one of the three deviation tags.
C11_TableShape ==
    Built =>
        /\ Len(df.columns) = 2 * NumMonths + 2
        /\ df.columns[1] = <<"Company">>
        /\ df.columns[2] = <<"Average Mix">>
        /\ \A m \in 1..NumMonths :
              /\ df.columns[ValuePos(m)] = <<months[m]>>
              /\ df.columns[VarPos(m)] = <<months[m], "_var">>
        /\ Len(styled_df) = Len(df.data)
        /\ \A r \in 1..Len(df.data) :
              /\ Len(df.data[r]) = 2 * NumMonths + 2
              /\ Len(styled_df[r]) = 2 * NumMonths + 2
              /\ styled_df[r][1] = CompanyStyle
              /\ styled_df[r][2] = AverageStyle
              /\ \A m \in 1..NumMonths :
                    /\ styled_df[r][ValuePos(m)] = ValueStyle
                    /\ styled_df[r][VarPos(m)] \in {GreenStyle, RedStyle, GreyStyle}

\* the one-company function has returned its table
SingleBuilt == fn = "single" /\ pc = "done"

\* the position of the <Month>_var column of month m in the one-company table
SingleVarPos(m) == NumMonths + 2 + m

\* C15: in the one-company table the <Month>_var column of every month is
\* styled by the deviation of that month: green when > 0, red when < 0, grey
\* when 0.
C15_SingleStyleByOwnMonth ==
    SingleBuilt =>
        \A r \in 1..Len(styled_df) : \A m \in 1..NumMonths :
            styled_df[r][SingleVarPos(m)] =
                (IF variability[m].h > 0 THEN GreenStyle
                 ELSE IF variability[m].h < 0 THEN RedStyle
                 ELSE GreyStyle)

\* C16: for one series and mode the one-company table holds the average, the
\* deviations and the deviation texts the builder gives, and the style of a
\* month's <Month>_var column is the builder's wherever the deviation is not 0.
C16_SamePaths ==
    SingleBuilt =>
        LET a == Selected(analysis_mode, monthly_calls, calls_percentages)
            row == RowData(analysis_mode, "Company", a, RoundMean(a),
                           Variability(a, RoundMean(a)))
            styles == highlight_variability_table(Columns, row)
        IN  /\ average_mix = RoundMean(a)
            /\ variability = Variability(a, RoundMean(a))
            /\ \A m \in 1..NumMonths :
                  /\ df.data[3][SingleVarPos(m)] = row[VarPos(m)]
                  /\ variability[m].h # 0 =>
                        styled_df[3][SingleVarPos(m)] = styles[VarPos(m)]

\* ------------------------------------------- two invocations of the builder
allVars == <<vars, parVars, aggVars>>

\* the record of SmallPool with this company_id
Entity(id) == CHOOSE e \in SmallPool : e.company_id = id

\* the data of the two callers: no rows, one and two well-formed records in
\* both orders, and a record whose series is one month short
ParInputs ==
    { DataFrame(AllColumns, recs) :
        recs \in { <<>>, <<Entity(1)>>, <<Entity(2)>>, <<Entity(1), Entity(2)>>,
                   <<Entity(2), Entity(1)>>, <<Entity(1), Entity(5)>> } }

ParModes == {"Percentages", "Absolute"}

\* the two invocations running on one list object
SharedSlot(p) == 1

\* table_data is a local name: each invocation has a list object of its own
Slot(p) == p

\* table_data bound to the list object of the call before
KeepList(old) == old

\* table_data = []
NewList(old) == <<>>

\* a caller calls the builder with its data and its mode
PCall(p) ==
    /\ frames[p].pc = "idle"
    /\ \E data \in ParInputs, mode \in ParModes :
          frames' = [frames EXCEPT ![p] =
                        [NoFrame EXCEPT !.all_companies_data = data,
                                        !.analysis_mode = mode,
                                        !.pc = "start"]]
    /\ UNCHANGED <<lists, vars, aggVars>>

\* the guard on empty data, else the columns and the new list
PCheckEmpty(p) ==
    /\ frames[p].pc = "start"
    /\ IF IsEmpty(frames[p].all_companies_data)
       THEN /\ frames' = [frames EXCEPT ![p].df = [columns |-> EmptyColumns, data |-> <<>>],
                                        ![p].pc = "done"]
            /\ UNCHANGED lists
       ELSE /\ frames' = [frames EXCEPT ![p].pc = "loop", ![p].i = 1]
            /\ lists' = [lists EXCEPT ![Slot(p)] = NewList(@)]
    /\ UNCHANGED <<vars, aggVars>>

\* one iteration of the loop over the rows
PProcessCompany(p) ==
    /\ frames[p].pc = "loop"
    /\ frames[p].i <= Len(frames[p].all_companies_data.rows)
    /\ LET mode == frames[p].analysis_mode
           company_row == frames[p].all_companies_data.rows[frames[p].i]
           company_name == Get(company_row, "company_name", "Unknown Company")
           calls == Get(company_row, "monthly_calls", Zeros)
           pct == Get(company_row, "calls_percentages", Zeros)
           monthly_values == Selected(mode, calls, pct)
           avg == RoundMean(monthly_values)
           var == Variability(monthly_values, avg)
       IN  IF MeanError(monthly_values) # "none"
           THEN /\ frames' = [frames EXCEPT ![p].error = MeanError(monthly_values),
                                            ![p].pc = "failed"]
                /\ UNCHANGED lists
           ELSE IF IndexError(monthly_values) # "none"
           THEN /\ frames' = [frames EXCEPT ![p].error = IndexError(monthly_values),
                                            ![p].pc = "failed"]
                /\ UNCHANGED lists
           ELSE /\ lists' = [lists EXCEPT ![Slot(p)] =
                                AppendRow(@, RowData(mode, company_name, monthly_values, avg, var))]
                /\ frames' = [frames EXCEPT ![p].i = @ + 1]
    /\ UNCHANGED <<vars, aggVars>>

\* after the loop: the DataFrame and its styles
PMakeTable(p) ==
    /\ frames[p].pc = "loop"
    /\ frames[p].i > Len(frames[p].all_companies_data.rows)
    /\ LET table == lists[Slot(p)]
       IN  frames' = [frames EXCEPT
                         ![p].df = [columns |-> Columns, data |-> table],
                         ![p].styled_df =
                             [r \in 1..Len(table) |-> highlight_variability_table(Columns, table[r])],
                         ![p].pc = "done"]
    /\ UNCHANGED <<lists, vars, aggVars>>

\* the caller has its result, or the exception
PReturn(p) ==
    /\ frames[p].pc \in {"done", "failed"}
    /\ frames' = [frames EXCEPT ![p] = NoFrame]
    /\ UNCHANGED <<lists, vars, aggVars>>

NextPar ==
    \E p \in Invocations :
        PCall(p) \/ PCheckEmpty(p) \/ PProcessCompany(p) \/ PMakeTable(p) \/ PReturn(p)

SpecPar == Init /\ [][NextPar]_allVars

\* the invocation has returned or raised
Finished(p) == frames[p].pc \in {"done", "failed"}

\* C12: two calls of the builder with the same data and the same mode end the
\* same way, with the same table and the same styles, whatever was called
\* before them.
C12_Deterministic ==
    \A p, q \in Invocations :
        ( /\ Finished(p)
          /\ Finished(q)
          /\ frames[p].all_companies_data = frames[q].all_companies_data
          /\ frames[p].analysis_mode = frames[q].analysis_mode )
        => /\ frames[p].pc = frames[q].pc
           /\ frames[p].error = frames[q].error
           /\ frames[p].df = frames[q].df
           /\ frames[p].styled_df = frames[q].styled_df

\* both callers hold a table of two rows built from the same data and mode
C12_Witness ==
    /\ frames[1].pc = "done"
    /\ frames[2].pc = "done"
    /\ frames[1].all_companies_data = frames[2].all_companies_data
    /\ frames[1].analysis_mode = frames[2].analysis_mode
    /\ Len(frames[1].df.data) = 2
    /\ frames[1].styled_df # <<>>

\* the series the mode selects from a row, and what processing the row raises
RowValuesOf(mode, row) ==
    Selected(mode, Get(row, "monthly_calls", Zeros), Get(row, "calls_percentages", Zeros))

RowError(mode, row) ==
    IF MeanError(RowValuesOf(mode, row)) # "none"
    THEN MeanError(RowValuesOf(mode, row))
    ELSE IndexError(RowValuesOf(mode, row))

\* the row of the table for a row of the data
RowOf(mode, row) ==
    RowData(mode, Get(row, "company_name", "Unknown Company"), RowValuesOf(mode, row),
            RoundMean(RowValuesOf(mode, row)),
            Variability(RowValuesOf(mode, row), RoundMean(RowValuesOf(mode, row))))

\* the rows the builder has after n records when it runs alone
AloneRows(data, mode, n) == [r \in 1..n |-> RowOf(mode, data.rows[r])]

\* the result of the builder when it runs alone
Alone(data, mode) ==
    IF IsEmpty(data)
    THEN [pc |-> "done", error |-> "none",
          df |-> [columns |-> EmptyColumns, data |-> <<>>], styled_df |-> <<>>]
    ELSE IF \E r \in 1..Len(data.rows) : RowError(mode, data.rows[r]) # "none"
    THEN LET first == CHOOSE r \in 1..Len(data.rows) :
                         /\ RowError(mode, data.rows[r]) # "none"
                         /\ \A k \in 1..(r - 1) : RowError(mode, data.rows[k]) = "none"
         IN  [pc |-> "failed", error |-> RowError(mode, data.rows[first]),
              df |-> NoTable, styled_df |-> <<>>]
    ELSE LET table == AloneRows(data, mode, Len(data.rows))
         IN  [pc |-> "done", error |-> "none",
              df |-> [columns |-> Columns, data |-> table],
              styled_df |-> [r \in 1..Len(table) |->
                                highlight_variability_table(Columns, table[r])]]

\* C13: an invocation reads only its arguments and writes only its own list
\* and results: while it runs its data and mode do not change, and at every
\* point of every interleaving with another invocation its rows so far, and
\* in the end its table, styles or exception, are those it has when it runs
\* alone.
C13_Isolated ==
    /\ [](\A p \in Invocations :
            /\ frames[p].pc = "loop" =>
                  lists[Slot(p)] =
                     AloneRows(frames[p].all_companies_data, frames[p].analysis_mode,
                               frames[p].i - 1)
            /\ Finished(p) =>
                  LET alone == Alone(frames[p].all_companies_data, frames[p].analysis_mode)
                  IN  /\ frames[p].pc = alone.pc
                      /\ frames[p].error = alone.error
                      /\ frames[p].df = alone.df
                      /\ frames[p].styled_df = alone.styled_df)
    /\ [][\A p \in Invocations :
            (frames[p].pc # "idle" /\ frames'[p].pc # "idle") =>
                /\ frames'[p].all_companies_data = frames[p].all_companies_data
                /\ frames'[p].analysis_mode = frames[p].analysis_mode]_allVars

\* both invocations are in the middle of their loops at once, on different
\* data, each with its first row appended
C13_Witness ==
    /\ frames[1].pc = "loop"
    /\ frames[2].pc = "loop"
    /\ frames[1].i = 2
    /\ frames[2].i = 2
    /\ Len(frames[1].all_companies_data.rows) = 2
    /\ Len(frames[2].all_companies_data.rows) = 2
    /\ frames[1].all_companies_data # frames[2].all_companies_data
    /\ lists[1] # lists[2]

\* ------------------------------- get_companies_variability_data (dashboard)
MaxCount == 2

AggIds == {1, 2}
AggName(id) == IF id = 1 THEN "A" ELSE "B"

\* the months a company has calls in: none, one, two, all
MonthSets == { {}, {1}, {2, NumMonths}, 1..NumMonths }

\* a count as a float, in model units
Count(n) == n * 100 * Res

\* the rows of one company, ordered by month: COUNT is a in the odd months
\* and b in the even ones
RECURSIVE CompanyRows(_, _, _, _, _)
CompanyRows(id, S, a, b, m) ==
    IF m = 0 THEN <<>>
    ELSE CompanyRows(id, S, a, b, m - 1)
         \o (IF m \in S
             THEN << [company_id |-> id, company_name |-> AggName(id), month |-> m,
                      calls |-> IF m % 2 = 1 THEN a ELSE b] >>
             ELSE <<>>)

\* what the query returns: grouped by company and month, ordered by both
Queries ==
    { CompanyRows(1, q[1], q[2], q[3], NumMonths) \o CompanyRows(2, r[1], r[2], r[3], NumMonths) :
        q \in MonthSets \X (0..MaxCount) \X (0..MaxCount),
        r \in MonthSets \X (0..MaxCount) \X (0..MaxCount) }

\* df['company_id'].unique(): in the order of first appearance
RECURSIVE Unique(_, _)
Unique(rows, k) ==
    IF k = 0 THEN <<>>
    ELSE LET before == Unique(rows, k - 1)
         IN  IF \E j \in 1..Len(before) : before[j] = rows[k].company_id
             THEN before
             ELSE Append(before, rows[k].company_id)

\* df[df['company_id'] == company_id]
CompanyDf(rows, company_id) == SelectSeq(rows, LAMBDA row : row.company_id = company_id)

\* monthly_calls after the first k rows of company_df
RECURSIVE Fill(_, _)
Fill(company_df, k) ==
    IF k = 0 THEN Zeros.data
    ELSE LET month_idx == company_df[k].month - 1
             before == Fill(company_df, k - 1)
         IN  IF 0 <= month_idx /\ month_idx < NumMonths
             THEN [before EXCEPT ![month_idx + 1] = Count(company_df[k].calls)]
             ELSE before

\* a float quotient, kept exact; the zero of np.zeros is 0/1
Quotient(n, d) == [num |-> n, den |-> d]
ZeroPct == [m \in 1..NumMonths |-> Quotient(0, 1)]

\* (monthly_calls / total_calls) * 100 whatever the total
PercentagesUnguarded(data, total_calls) ==
    [m \in 1..Len(data) |-> Quotient(100 * data[m], total_calls)]

\* calls_percentages: zeros, replaced by the quotients if total_calls > 0
Percentages(data, total_calls) ==
    IF total_calls > 0
    THEN [m \in 1..Len(data) |-> Quotient(100 * data[m], total_calls)]
    ELSE ZeroPct

\* the query is run
AggQuery ==
    /\ agg_pc = "idle"
    /\ \E q \in Queries : query_df' = q
    /\ agg_pc' = "queried"
    /\ UNCHANGED <<agg_i, companies_data, returned, vars, parVars>>

\* the client or the query raises: the except branch returns pd.DataFrame()
AggQueryFails ==
    /\ agg_pc = "idle"
    /\ returned' = NoData
    /\ agg_pc' = "done"
    /\ UNCHANGED <<query_df, agg_i, companies_data, vars, parVars>>

\* if df.empty: return pd.DataFrame(); else companies_data = []
AggCheckEmpty ==
    /\ agg_pc = "queried"
    /\ IF Len(query_df) = 0
       THEN /\ returned' = NoData
            /\ agg_pc' = "done"
            /\ UNCHANGED <<agg_i, companies_data>>
       ELSE /\ companies_data' = <<>>
            /\ agg_i' = 1
            /\ agg_pc' = "loop"
            /\ UNCHANGED returned
    /\ UNCHANGED <<query_df, vars, parVars>>

\* one iteration of the loop over the company ids
AggCompany ==
    /\ agg_pc = "loop"
    /\ agg_i <= Len(Unique(query_df, Len(query_df)))
    /\ LET company_id == Unique(query_df, Len(query_df))[agg_i]
           company_df == CompanyDf(query_df, company_id)
           company_name == company_df[1].company_name
           calls == Fill(company_df, Len(company_df))
           total_calls == SumSeq(calls)
       IN  companies_data' =
              Append(companies_data,
                     Company(company_name, company_id, Array("float64", calls),
                             Array("float64", Percentages(calls, total_calls))))
    /\ agg_i' = agg_i + 1
    /\ UNCHANGED <<query_df, agg_pc, returned, vars, parVars>>

\* return pd.DataFrame(companies_data)
AggMake ==
    /\ agg_pc = "loop"
    /\ agg_i > Len(Unique(query_df, Len(query_df)))
    /\ returned' = DataFrame(AllColumns, companies_data)
    /\ agg_pc' = "done"
    /\ UNCHANGED <<query_df, agg_i, companies_data, vars, parVars>>

\* the caller has the data
AggReturn ==
    /\ agg_pc = "done"
    /\ query_df' = <<>>
    /\ agg_pc' = "idle"
    /\ agg_i' = 0
    /\ companies_data' = <<>>
    /\ returned' = NoData
    /\ UNCHANGED <<vars, parVars>>

NextAgg == AggQuery \/ AggQueryFails \/ AggCheckEmpty \/ AggCompany \/ AggMake \/ AggReturn

SpecAgg == Init /\ [][NextAgg]_allVars

\* the sum of the numerators of a series of quotients
RECURSIVE SumNum(_, _)
SumNum(pct, k) == IF k = 0 THEN 0 ELSE SumNum(pct, k - 1) + pct[k].num

\* the query has a row for this company and month
HasRow(company_id, m) ==
    \E k \in 1..Len(query_df) : query_df[k].company_id = company_id /\ query_df[k].month = m

\* C14: every record the aggregation returns has two float series of 12
\* elements; a month the query has no row for is 0; when the counts total
\* more than 0 each percentage is 100 * count / total and they sum to 100;
\* when the total is 0 the percentages are the zeros, no quotient taken.
C14_Aggregation ==
    agg_pc = "done" =>
        \A r \in 1..Len(returned.rows) :
            LET row == returned.rows[r]
                calls == row.monthly_calls.data
                pct == row.calls_percentages.data
                total == SumSeq(calls)
            IN  /\ row.monthly_calls.dtype = "float64"
                /\ row.calls_percentages.dtype = "float64"
                /\ Len(calls) = NumMonths
                /\ Len(pct) = NumMonths
                /\ \A m \in 1..NumMonths : ~HasRow(row.company_id, m) => calls[m] = 0
                /\ total > 0 =>
                      /\ \A m \in 1..NumMonths : pct[m] = Quotient(100 * calls[m], total)
                      /\ SumNum(pct, NumMonths) = 100 * total
                /\ total = 0 => pct = ZeroPct

\* two companies returned: one with calls and a month without a row, one whose
\* counts are all 0
C14_Witness ==
    /\ agg_pc = "done"
    /\ Len(returned.rows) = 2
    /\ SumSeq(returned.rows[1].monthly_calls.data) > 0
    /\ \E m \in 1..NumMonths : ~HasRow(returned.rows[1].company_id, m)
    /\ HasRow(returned.rows[2].company_id, 1)
    /\ SumSeq(returned.rows[2].monthly_calls.data) = 0

====
